---- MODULE Spec2Model ----
(***************************************************************************)
(* Build-time blog utilities of farhandigital: the path deriver            *)
(* (getPostPath / getPostSlug), the RSS endpoint (GET of rss.xml.ts), the  *)
(* blog collection schema, and the sorter / filter / tag grouper the RSS   *)
(* endpoint and the listing pages call.                                    *)
(*                                                                         *)
(* A JavaScript string is a sequence of one-character strings, so that     *)
(* split, pop and the /\.md$/ replacement are computed, not assumed.       *)
(* An optional field (modDatetime?, draft?, tags before the schema         *)
(* default) is None == <<>> or Some(v) == <<v>>.                           *)
(* Dates are epoch milliseconds.                                           *)
(***************************************************************************)
EXTENDS Integers, Sequences, FiniteSets

VARIABLES
    files,        \* front-matter of the markdown files, in loader order
    posts,        \* getCollection("blog"): the entries after the schema
    now,          \* build clock (Date.now()), epoch ms
    filtering,    \* whether the sorter applies the draft/scheduling filter
    sortedPosts,  \* rss.xml.ts: const sortedPosts
    items,        \* rss.xml.ts: the items handed to rss()
    slugs,        \* static route params, getPostSlug of every entry
    buckets,      \* tag -> entries of the tag's listing page
    pc            \* position of the build

vars == <<files, posts, now, filtering, sortedPosts, items, slugs, buckets, pc>>

-----------------------------------------------------------------------------
(* Bounds of the model *)

MaxIdLen == 7
MaxPairLen == 3
MaxPosts == 2
MaxDate == 1
MaxTags == 2

-----------------------------------------------------------------------------
(* Optional values *)

None == <<>>
Some(v) == <<v>>
IsSome(o) == o # <<>>
Get(o) == o[1]

-----------------------------------------------------------------------------
(* JavaScript string primitives used by the path deriver *)

\* String.prototype.split(sep) for a one-character separator: the pieces
\* between the separators, left to right; a string without separator is
\* its own single piece, the empty string gives [""].
RECURSIVE split(_, _)
split(str, sep) ==
    IF \E i \in 1..Len(str) : str[i] = sep
    THEN LET i == CHOOSE k \in 1..Len(str) :
                     /\ str[k] = sep
                     /\ \A j \in 1..(k - 1) : str[j] # sep
         IN  <<SubSeq(str, 1, i - 1)>> \o split(SubSeq(str, i + 1, Len(str)), sep)
    ELSE <<str>>

\* Array.prototype.pop(): the last element (split never returns []).
pop(arr) == arr[Len(arr)]

\* The literal matched by the regular expression /\.md$/
DotMd == <<".", "m", "d">>

\* str.replace(/\.md$/, ""): one trailing ".md" removed, if there is one.
replaceMdSuffix(str) ==
    IF Len(str) >= 3 /\ SubSeq(str, Len(str) - 2, Len(str)) = DotMd
    THEN SubSeq(str, 1, Len(str) - 3)
    ELSE str

\* a || b on strings: the empty string is falsy.
OrElse(a, b) == IF a # <<>> THEN a ELSE b

\* The template literal prefix of `/blog/${slug}`
BlogPrefix == <<"/", "b", "l", "o", "g", "/">>

-----------------------------------------------------------------------------
(* src/utils/blog/getPostPath.ts *)

\* getPostPath taking the first segment (shift) instead of the last (pop)
getPostPathFirstSegment(post) ==
    LET slug == OrElse(replaceMdSuffix(split(post.id, "/")[1]), post.id)
    IN  BlogPrefix \o slug

\* getPostPath without the /\.md$/ replacement
getPostPathKeepExtension(post) ==
    LET slug == OrElse(pop(split(post.id, "/")), post.id)
    IN  BlogPrefix \o slug

\* getPostPath without the || post.id fallback
getPostPathNoFallback(post) ==
    LET slug == replaceMdSuffix(pop(split(post.id, "/")))
    IN  BlogPrefix \o slug

\* getPostPath on the whole identifier, nothing split off
getPostPathWholeId(post) ==
    LET slug == OrElse(replaceMdSuffix(post.id), post.id)
    IN  BlogPrefix \o slug

\* getPostPath removing whatever follows the last "." of the last segment
getPostPathStripAnyExtension(post) ==
    LET seg == pop(split(post.id, "/"))
        dots == {i \in 1..Len(seg) : seg[i] = "."}
        cut == IF dots = {} THEN Len(seg) + 1
               ELSE CHOOSE i \in dots : \A j \in dots : j <= i
        slug == OrElse(SubSeq(seg, 1, cut - 1), post.id)
    IN  BlogPrefix \o slug

getPostPath(post) ==
    LET slug == OrElse(replaceMdSuffix(pop(split(post.id, "/"))), post.id)
    IN  BlogPrefix \o slug

\* getPostSlug without the || post.id fallback
getPostSlugNoFallback(post) ==
    replaceMdSuffix(pop(split(post.id, "/")))

getPostSlug(post) ==
    OrElse(replaceMdSuffix(pop(split(post.id, "/"))), post.id)

\* the margin written in seconds instead of milliseconds
scheduledPostMarginInSeconds == 15 * 60

\* SITE.scheduledPostMargin
scheduledPostMargin == 15 * 60 * 1000

-----------------------------------------------------------------------------
(* Blog collection schema (content config) *)

\* tags: z.array(z.string()).default(["others"])
DefaultTags == <<"others">>

\* the schema with tags merely optional, the default left out
schemaWithoutDefault(raw) ==
    [pubDatetime |-> raw.pubDatetime,
     modDatetime |-> raw.modDatetime,
     draft       |-> raw.draft,
     tags        |-> IF IsSome(raw.tags) THEN Get(raw.tags) ELSE <<>>]

schema(raw) ==
    [pubDatetime |-> raw.pubDatetime,
     modDatetime |-> raw.modDatetime,
     draft       |-> raw.draft,
     tags        |-> IF IsSome(raw.tags) THEN Get(raw.tags) ELSE DefaultTags]

\* getCollection("blog"): one entry per file, in loader order.
getCollection(fs) ==
    [i \in 1..Len(fs) |-> [id |-> fs[i].id, data |-> schema(fs[i].data)]]

-----------------------------------------------------------------------------
(* Sorter / filter / grouper (spec section 4.2) *)

\* effective date = modDatetime if present else pubDatetime
effectiveDate(post) ==
    IF IsSome(post.data.modDatetime)
    THEN Get(post.data.modDatetime)
    ELSE post.data.pubDatetime

\* kept unless draft: true, or pubDatetime is beyond now + margin
postFilter(post, t) ==
    /\ ~(IsSome(post.data.draft) /\ Get(post.data.draft))
    /\ ~(post.data.pubDatetime > t + scheduledPostMargin)

filterSeq(s, t) == SelectSeq(s, LAMBDA p : postFilter(p, t))

\* insertion that treats an entry of equal effective date as already there
insertByDateDroppingTies(p, s) ==
    IF \E i \in 1..Len(s) : effectiveDate(s[i]) = effectiveDate(p)
    THEN s
    ELSE LET ahead == {i \in 1..Len(s) : effectiveDate(s[i]) > effectiveDate(p)}
         IN  SubSeq(s, 1, Cardinality(ahead)) \o <<p>>
                 \o SubSeq(s, Cardinality(ahead) + 1, Len(s))

\* insert p behind every entry whose effective date is not earlier
insertByDate(p, s) ==
    LET ahead == {i \in 1..Len(s) : effectiveDate(s[i]) >= effectiveDate(p)}
        k == IF ahead = {} THEN 0
             ELSE CHOOSE i \in ahead : \A j \in ahead : j <= i
    IN  SubSeq(s, 1, k) \o <<p>> \o SubSeq(s, k + 1, Len(s))

\* stable sort, effective date descending
RECURSIVE sortByDate(_)
sortByDate(s) ==
    IF s = <<>> THEN <<>>
    ELSE insertByDate(s[Len(s)], sortByDate(SubSeq(s, 1, Len(s) - 1)))

getSortedPosts(ps, flt, t) ==
    sortByDate(IF flt THEN filterSeq(ps, t) ELSE ps)

hasTag(post, tag) == \E i \in 1..Len(post.data.tags) : post.data.tags[i] = tag

uniqueTags(s) ==
    UNION {{s[i].data.tags[j] : j \in 1..Len(s[i].data.tags)} : i \in 1..Len(s)}

\* grouping that looks at an entry's first tag only
getPostsByFirstTag(s, tag) ==
    SelectSeq(s, LAMBDA p : Len(p.data.tags) > 0 /\ p.data.tags[1] = tag)

getPostsByTag(s, tag) == SelectSeq(s, LAMBDA p : hasTag(p, tag))

\* every tag of the sequence keys a bucket holding, in the sequence's order,
\* the entries that carry it
groupByTag(s) == [tag \in uniqueTags(s) |-> getPostsByTag(s, tag)]

-----------------------------------------------------------------------------
(* src/pages/rss.xml.ts *)

\* the feed built from the collection as loaded, the sorter's ordering left out
rssUnsortedPosts(ps, flt, t) == IF flt THEN filterSeq(ps, t) ELSE ps

\* const sortedPosts = getSortedPosts(posts)
rssSortedPosts(ps, flt, t) == getSortedPosts(ps, flt, t)

\* the item dated by pubDatetime alone
pubDateIgnoringMod(post) == post.data.pubDatetime

\* the item dated by the later of the two dates
pubDateLaterOfBoth(post) ==
    IF IsSome(post.data.modDatetime)
       /\ Get(post.data.modDatetime) > post.data.pubDatetime
    THEN Get(post.data.modDatetime)
    ELSE post.data.pubDatetime

\* new Date(post.data.modDatetime ?? post.data.pubDatetime)
pubDate(post) ==
    IF IsSome(post.data.modDatetime)
    THEN Get(post.data.modDatetime)
    ELSE post.data.pubDatetime

\* one feed item (title and description are copied through and left out)
rssItem(post) == [link |-> getPostPath(post), pubDate |-> pubDate(post)]

\* the items built walking the sorted entries from the last to the first
rssItemsReversed(sorted) ==
    [i \in 1..Len(sorted) |-> rssItem(sorted[Len(sorted) + 1 - i])]

rssItems(sorted) == [i \in 1..Len(sorted) |-> rssItem(sorted[i])]

-----------------------------------------------------------------------------
(* Inputs *)

Chars == {"/", ".", "m", "d"}

\* every string over Chars of length at most n
Ids(n) == UNION {[1..k -> Chars] : k \in 0..n}

\* the identifiers of the spec's examples
ArticlesMyPostMd ==
    <<"a","r","t","i","c","l","e","s","/","m","y","-","p","o","s","t",".","m","d">>
MyPost == <<"m","y","-","p","o","s","t">>

Dates == {scheduledPostMargin + k : k \in 0..MaxDate}
Nows == 0..MaxDate
OptDates == {None} \cup {Some(d) : d \in Dates}
OptBools == {None, Some(TRUE), Some(FALSE)}

TagNames == {"a", "b", "others"}

Injective(f) == \A i, j \in DOMAIN f : f[i] = f[j] => i = j

\* tag lists without repetition, of length at most MaxTags
TagLists == UNION {{f \in [1..k -> TagNames] : Injective(f)} : k \in 0..MaxTags}
OptTags == {None} \cup {Some(l) : l \in TagLists}

\* front-matter with nothing optional set, published at the earliest date
PlainData ==
    [pubDatetime |-> scheduledPostMargin, modDatetime |-> None,
     draft |-> None, tags |-> None]

\* the i-th file of a listing: d/m.md, d/mm.md, ...
FeedId(i) == <<"d", "/">> \o [k \in 1..i |-> "m"] \o DotMd

FeedData ==
    [pubDatetime : Dates, modDatetime : OptDates, draft : OptBools, tags : {None}]

TagData ==
    [pubDatetime : {scheduledPostMargin}, modDatetime : {None},
     draft : {None, Some(TRUE)}, tags : OptTags]

\* the collection of n files with front-matter d[1], ..., d[n]
Collection(n, d) == [i \in 1..n |-> [id |-> FeedId(i), data |-> d[i]]]

Unbuilt ==
    /\ posts = <<>>
    /\ sortedPosts = <<>>
    /\ items = <<>>
    /\ slugs = <<>>
    /\ buckets = <<>>
    /\ pc = "load"

\* dated, possibly draft entries: the listing and feed order
Init ==
    /\ \E n \in 0..MaxPosts : \E d \in [1..n -> FeedData] : files = Collection(n, d)
    /\ now \in Nows
    /\ filtering \in BOOLEAN
    /\ Unbuilt

\* one entry, every identifier
InitPath ==
    /\ \E id \in Ids(MaxIdLen) \cup {ArticlesMyPostMd, MyPost} :
           files = <<[id |-> id, data |-> PlainData]>>
    /\ now = 0
    /\ filtering = FALSE
    /\ Unbuilt

\* two entries with distinct identifiers
InitPair ==
    /\ \E a, b \in Ids(MaxPairLen) :
           /\ a # b
           /\ files = <<[id |-> a, data |-> PlainData], [id |-> b, data |-> PlainData]>>
    /\ now = 0
    /\ filtering = FALSE
    /\ Unbuilt

\* tagged entries
InitTags ==
    /\ \E n \in 0..MaxPosts : \E d \in [1..n -> TagData] : files = Collection(n, d)
    /\ now = 0
    /\ filtering \in BOOLEAN
    /\ Unbuilt

-----------------------------------------------------------------------------
(* The build *)

\* the content loader validates the files against the schema
Load ==
    /\ pc = "load"
    /\ posts' = getCollection(files)
    /\ pc' = "rss"
    /\ UNCHANGED <<files, now, filtering, sortedPosts, items, slugs, buckets>>

\* GET with the collection sorted in place (Array.prototype.sort on posts)
GETSortingInPlace ==
    /\ pc = "rss"
    /\ sortedPosts' = rssSortedPosts(posts, filtering, now)
    /\ posts' = rssSortedPosts(posts, filtering, now)
    /\ items' = rssItems(rssSortedPosts(posts, filtering, now))
    /\ pc' = "paths"
    /\ UNCHANGED <<files, now, filtering, slugs, buckets>>

\* rss.xml.ts GET
GET ==
    /\ pc = "rss"
    /\ sortedPosts' = rssSortedPosts(posts, filtering, now)
    /\ items' = rssItems(rssSortedPosts(posts, filtering, now))
    /\ pc' = "paths"
    /\ UNCHANGED <<files, posts, now, filtering, slugs, buckets>>

\* the static routes of [...slug].astro: getPostSlug of every entry
StaticPaths ==
    /\ pc = "paths"
    /\ slugs' = [i \in 1..Len(posts) |-> getPostSlug(posts[i])]
    /\ pc' = "tags"
    /\ UNCHANGED <<files, posts, now, filtering, sortedPosts, items, buckets>>

\* the tag listing pages: the sorted sequence grouped by tag
TagPages ==
    /\ pc = "tags"
    /\ buckets' = groupByTag(getSortedPosts(posts, filtering, now))
    /\ pc' = "done"
    /\ UNCHANGED <<files, posts, now, filtering, sortedPosts, items, slugs>>

Next == Load \/ GET \/ StaticPaths \/ TagPages

Spec == Init /\ [][Next]_vars
SpecPath == InitPath /\ [][Next]_vars
SpecPair == InitPair /\ [][Next]_vars
SpecTags == InitTags /\ [][Next]_vars

-----------------------------------------------------------------------------
(* Vocabulary of the properties *)

HasSeparator(id) == \E i \in 1..Len(id) : id[i] = "/"

\* what follows the last "/" of id (all of id when it has none)
LastSegment(id) ==
    LET seps == {i \in 1..Len(id) : id[i] = "/"}
        last == IF seps = {} THEN 0 ELSE CHOOSE i \in seps : \A j \in seps : j <= i
    IN  SubSeq(id, last + 1, Len(id))

EndsWith(s, suffix) ==
    /\ Len(s) >= Len(suffix)
    /\ SubSeq(s, Len(s) - Len(suffix) + 1, Len(s)) = suffix

\* s without its ".md" extension
WithoutExtension(s) ==
    IF EndsWith(s, DotMd) THEN SubSeq(s, 1, Len(s) - Len(DotMd)) ELSE s

\* the last segment of id, extension removed
Stem(id) == WithoutExtension(LastSegment(id))

\* the last segment is a non-empty name followed by ".md.md"
DoubleExtension(id) ==
    /\ EndsWith(LastSegment(id), DotMd \o DotMd)
    /\ Len(LastSegment(id)) > Len(DotMd \o DotMd)

\* the feed has been generated: items[i] is the item of sortedPosts[i]
FeedBuilt == pc \in {"paths", "tags", "done"}
RoutesBuilt == pc \in {"tags", "done"}
Built == pc = "done"

FeedIndex == IF FeedBuilt THEN 1..Len(items) ELSE {}

-----------------------------------------------------------------------------
(* C1 *)

\* C1 as stated: for every entry whose identifier contains a "/", the link
\* is "/blog/" followed by the last segment with its extension removed.
C1_AsStated ==
    \A i \in FeedIndex :
        HasSeparator(sortedPosts[i].id)
            => items[i].link = BlogPrefix \o Stem(sortedPosts[i].id)

\* C1 amended: for every entry whose identifier contains a "/", the link is
\* "/blog/" followed by the last segment with a trailing ".md" removed when
\* that is non-empty, and "/blog/" followed by the whole identifier when it
\* is empty.
C1_LastSegmentPath ==
    \A i \in FeedIndex :
        LET id == sortedPosts[i].id
        IN  HasSeparator(id)
                => items[i].link =
                       BlogPrefix \o (IF Stem(id) # <<>> THEN Stem(id) ELSE id)

\* "articles/my-post.md" was given the link "/blog/my-post"
C1_Witness ==
    /\ FeedBuilt
    /\ Len(items) = 1
    /\ sortedPosts[1].id = ArticlesMyPostMd
    /\ items[1].link = BlogPrefix \o MyPost

-----------------------------------------------------------------------------
(* C2 *)

\* C2 as stated: for every entry whose identifier contains no "/", the link
\* is "/blog/" followed by the identifier with its extension removed.
C2_AsStated ==
    \A i \in FeedIndex :
        ~HasSeparator(sortedPosts[i].id)
            => items[i].link = BlogPrefix \o WithoutExtension(sortedPosts[i].id)

\* C2 amended: for every entry whose identifier contains no "/", the link is
\* "/blog/" followed by the identifier with a trailing ".md" removed, except
\* for the identifier ".md" itself, whose link is "/blog/.md".
C2_NoSeparatorPath ==
    \A i \in FeedIndex :
        LET id == sortedPosts[i].id
        IN  ~HasSeparator(id)
                => items[i].link =
                       BlogPrefix \o (IF id = DotMd THEN DotMd ELSE WithoutExtension(id))

\* "my-post" was given the link "/blog/my-post"
C2_Witness ==
    /\ FeedBuilt
    /\ Len(items) = 1
    /\ sortedPosts[1].id = MyPost
    /\ items[1].link = BlogPrefix \o MyPost

-----------------------------------------------------------------------------
(* C3 *)

-----------------------------------------------------------------------------
(* C7 *)

\* C7: when the last segment is empty after the extension is removed, the
\* link is "/blog/" followed by the whole identifier; in every other case it
\* is "/blog/" followed by that stem; every entry gets a link, and for a
\* non-empty identifier something follows "/blog/".
C7_EmptyStemFallsBackToId ==
    FeedBuilt =>
        /\ Len(items) = Len(sortedPosts)
        /\ \A i \in 1..Len(items) :
               LET id == sortedPosts[i].id
               IN  /\ Stem(id) = <<>> => items[i].link = BlogPrefix \o id
                   /\ Stem(id) # <<>> => items[i].link = BlogPrefix \o Stem(id)
                   /\ id # <<>> => Len(items[i].link) > Len(BlogPrefix)

\* "d/.md" has an empty stem and was given the link "/blog/d/.md"
C7_Witness ==
    /\ FeedBuilt
    /\ Len(items) = 1
    /\ sortedPosts[1].id = <<"d", "/">> \o DotMd
    /\ items[1].link = BlogPrefix \o <<"d", "/">> \o DotMd

-----------------------------------------------------------------------------
(* C8 *)

\* C8 as stated: any two entries with distinct identifiers whose last
\* segments are equal after the extension is removed get the same link.
C8_AsStated ==
    \A i, j \in FeedIndex :
        /\ sortedPosts[i].id # sortedPosts[j].id
        /\ Stem(sortedPosts[i].id) = Stem(sortedPosts[j].id)
        => items[i].link = items[j].link

\* C8 amended: any two entries with distinct identifiers whose last segments
\* are equal and non-empty after the extension is removed get the same link
\* (distinct identifiers do not give distinct links); when both stems are
\* empty the links are the distinct whole identifiers.
C8_EqualStemsCollide ==
    \A i, j \in FeedIndex :
        /\ sortedPosts[i].id # sortedPosts[j].id
        /\ Stem(sortedPosts[i].id) = Stem(sortedPosts[j].id)
        => (items[i].link = items[j].link <=> Stem(sortedPosts[i].id) # <<>>)

\* "m/d" and "d" are distinct identifiers served under the one link "/blog/d"
C8_Witness ==
    /\ FeedBuilt
    /\ Len(items) = 2
    /\ sortedPosts[1].id = <<"m", "/", "d">>
    /\ sortedPosts[2].id = <<"d">>
    /\ items[1].link = BlogPrefix \o <<"d">>
    /\ items[2].link = BlogPrefix \o <<"d">>

-----------------------------------------------------------------------------
(* Vocabulary of the ordering properties *)

\* modDatetime when the entry has one, pubDatetime otherwise
ModElsePub(post) ==
    IF post.data.modDatetime # None
    THEN post.data.modDatetime[1]
    ELSE post.data.pubDatetime

\* the later of pubDatetime and modDatetime
LaterOfPubAndMod(post) ==
    IF post.data.modDatetime # None /\ post.data.modDatetime[1] > post.data.pubDatetime
    THEN post.data.modDatetime[1]
    ELSE post.data.pubDatetime

\* position of the entry with this identifier in the loaded collection
\* (identifiers of a collection are unique)
PositionInPosts(id) == CHOOSE k \in 1..Len(posts) : posts[k].id = id

IsDraft(post) == post.data.draft = Some(TRUE)

\* pubDatetime later than the build time plus 15 minutes
ScheduledBeyondMargin(post) == post.data.pubDatetime > now + 15 * 60 * 1000

InSorted(post) == \E i \in 1..Len(sortedPosts) : sortedPosts[i] = post

-----------------------------------------------------------------------------
(* C4 *)

\* C4: the sorted output is non-increasing in effective date, and entries
\* with equal effective dates keep the relative order of the input.
C4_SortedDescendingAndStable ==
    FeedBuilt =>
        \A i, j \in 1..Len(sortedPosts) :
            i < j =>
                /\ ModElsePub(sortedPosts[i]) >= ModElsePub(sortedPosts[j])
                /\ ModElsePub(sortedPosts[i]) = ModElsePub(sortedPosts[j])
                       => PositionInPosts(sortedPosts[i].id)
                              < PositionInPosts(sortedPosts[j].id)

\* two entries without modDatetime, the earlier one loaded first, come out
\* later one first
C4_Witness ==
    /\ FeedBuilt
    /\ Len(posts) = 2
    /\ posts[1].data.modDatetime = None
    /\ posts[2].data.modDatetime = None
    /\ posts[1].data.pubDatetime < posts[2].data.pubDatetime
    /\ sortedPosts = <<posts[2], posts[1]>>

-----------------------------------------------------------------------------
(* C5 *)

\* C5: every feed item is dated by its entry's modDatetime when present and
\* by its pubDatetime otherwise, and the feed is ordered by that same date,
\* most recent first.
C5_ModElsePubIsKeyAndPubDate ==
    FeedBuilt =>
        /\ \A i \in 1..Len(items) : items[i].pubDate = ModElsePub(sortedPosts[i])
        /\ \A i, j \in 1..Len(items) : i < j => items[i].pubDate >= items[j].pubDate

\* an entry published no later than another but modified after it is
\* listed first and dated by its modDatetime
C5_Witness ==
    /\ FeedBuilt
    /\ Len(posts) = 2
    /\ posts[1].data.modDatetime = None
    /\ posts[2].data.modDatetime # None
    /\ posts[2].data.pubDatetime = posts[1].data.pubDatetime
    /\ posts[2].data.modDatetime[1] > posts[2].data.pubDatetime
    /\ sortedPosts = <<posts[2], posts[1]>>
    /\ items[1].pubDate = posts[2].data.modDatetime[1]

-----------------------------------------------------------------------------
(* C6 *)

\* C6 as stated: the date emitted for an entry is the later of its
\* pubDatetime and its modDatetime.
C6_AsStated ==
    \A i \in FeedIndex : items[i].pubDate = LaterOfPubAndMod(sortedPosts[i])

\* C6 amended: the date emitted for an entry is the later of its two dates
\* when modDatetime is absent or not earlier than pubDatetime; a modDatetime
\* that is present and earlier than pubDatetime is the date emitted.
C6_EarlierModIsEmitted ==
    \A i \in FeedIndex :
        LET post == sortedPosts[i]
        IN  IF post.data.modDatetime # None
               /\ post.data.modDatetime[1] < post.data.pubDatetime
            THEN /\ items[i].pubDate = post.data.modDatetime[1]
                 /\ items[i].pubDate < LaterOfPubAndMod(post)
            ELSE items[i].pubDate = LaterOfPubAndMod(post)

\* an entry modified before it was published is in the feed under its
\* modDatetime
C6_Witness ==
    /\ FeedBuilt
    /\ \E i \in 1..Len(items) :
           /\ sortedPosts[i].data.modDatetime # None
           /\ sortedPosts[i].data.modDatetime[1] < sortedPosts[i].data.pubDatetime
           /\ items[i].pubDate = sortedPosts[i].data.modDatetime[1]

-----------------------------------------------------------------------------
(* C9 *)

\* C9: with the filter applied, the output holds no draft and no entry
\* published later than the build time plus 15 minutes, and holds every
\* other entry of the collection.
C9_FilterDropsDraftsAndScheduled ==
    (FeedBuilt /\ filtering) =>
        /\ \A i \in 1..Len(sortedPosts) :
               /\ ~IsDraft(sortedPosts[i])
               /\ ~ScheduledBeyondMargin(sortedPosts[i])
        /\ \A k \in 1..Len(posts) :
               (~IsDraft(posts[k]) /\ ~ScheduledBeyondMargin(posts[k]))
                   => InSorted(posts[k])

\* of two entries that are not drafts, the one published exactly at the
\* margin is kept and the one published a millisecond later is dropped
C9_Witness ==
    /\ FeedBuilt
    /\ filtering
    /\ Len(posts) = 2
    /\ ~IsDraft(posts[1])
    /\ ~IsDraft(posts[2])
    /\ posts[1].data.pubDatetime = now + 15 * 60 * 1000
    /\ posts[2].data.pubDatetime = now + 15 * 60 * 1000 + 1
    /\ sortedPosts = <<posts[1]>>

-----------------------------------------------------------------------------
(* C10 *)

InBucket(post, tag) ==
    /\ tag \in DOMAIN buckets
    /\ \E k \in 1..Len(buckets[tag]) : buckets[tag][k] = post

CarriesTag(post, tag) == \E k \in 1..Len(post.data.tags) : post.data.tags[k] = tag

\* C10: every entry of the grouped sequence is in the bucket of each of its
\* tags, and a bucket holds only entries of the sequence that carry its tag.
C10_BucketMembershipIsTagMembership ==
    Built =>
        /\ \A i \in 1..Len(sortedPosts) : \A tag \in TagNames :
               CarriesTag(sortedPosts[i], tag) <=> InBucket(sortedPosts[i], tag)
        /\ \A tag \in DOMAIN buckets : \A k \in 1..Len(buckets[tag]) :
               /\ InSorted(buckets[tag][k])
               /\ CarriesTag(buckets[tag][k], tag)

\* an entry tagged ["a","b"] is in bucket a and in bucket b, next to an
\* entry tagged ["a"] that is in bucket a only
C10_Witness ==
    /\ Built
    /\ Len(sortedPosts) = 2
    /\ sortedPosts[1].data.tags = <<"a", "b">>
    /\ sortedPosts[2].data.tags = <<"a">>
    /\ buckets["a"] = sortedPosts
    /\ buckets["b"] = <<sortedPosts[1]>>

-----------------------------------------------------------------------------
(* C11 *)

Loaded == pc # "load"

InSomeBucket(post) == \E tag \in DOMAIN buckets : InBucket(post, tag)

\* C11 as stated: every loaded entry has a tags list, one without a tags
\* field has ["others"], and every entry produced by the loader is in at
\* least one tag bucket.
C11_AsStated ==
    /\ Loaded => \A k \in 1..Len(posts) :
           files[k].data.tags = None => posts[k].data.tags = <<"others">>
    /\ Built => \A k \in 1..Len(posts) : InSomeBucket(posts[k])

\* C11 amended: every loaded entry has a tags list: ["others"] when the
\* front-matter has no tags field, the front-matter's list otherwise (an
\* empty list stays empty). An entry of the grouped sequence is in at least
\* one tag bucket exactly when its list is non-empty, so one without a tags
\* field is in bucket "others"; an entry with tags: [] and an entry the
\* filter dropped are in none.
C11_DefaultTagsOthers ==
    /\ Loaded =>
           /\ Len(posts) = Len(files)
           /\ \A k \in 1..Len(posts) :
                  posts[k].data.tags =
                      IF files[k].data.tags = None
                      THEN <<"others">>
                      ELSE files[k].data.tags[1]
    /\ Built =>
           /\ \A i \in 1..Len(sortedPosts) :
                  /\ InSomeBucket(sortedPosts[i]) <=> sortedPosts[i].data.tags # <<>>
                  /\ files[PositionInPosts(sortedPosts[i].id)].data.tags = None
                         => InBucket(sortedPosts[i], "others")
           /\ \A k \in 1..Len(posts) :
                  ~InSorted(posts[k]) => ~InSomeBucket(posts[k])

\* a file without tags field is loaded with ["others"] and listed in bucket
\* "others", next to a file with tags: [] that is in no bucket
C11_Witness ==
    /\ Built
    /\ Len(files) = 2
    /\ files[1].data.tags = None
    /\ files[2].data.tags = Some(<<>>)
    /\ posts[1].data.tags = <<"others">>
    /\ DOMAIN buckets = {"others"}
    /\ buckets["others"] = <<posts[1]>>
    /\ InSorted(posts[2])

-----------------------------------------------------------------------------
(* C12 *)

\* C12: deriving paths and slugs and sorting leave the loaded entries as
\* they are: once loaded, the collection keeps its order and content
\* through every later step, and the ordered result is held apart from it.
C12_EntriesLeftUnchanged ==
    [][Loaded => (posts' = posts /\ files' = files)]_vars

\* the feed holds the two entries in the opposite order while the
\* collection still holds them as loaded
C12_Witness ==
    /\ Built
    /\ Len(posts) = 2
    /\ posts = getCollection(files)
    /\ sortedPosts = <<posts[2], posts[1]>>
    /\ Len(items) = 2
    /\ Len(slugs) = 2

-----------------------------------------------------------------------------
(* C13 *)

\* position of the last "." of s, 0 when it has none
LastDot(s) ==
    LET dots == {i \in 1..Len(s) : s[i] = "."}
    IN  IF dots = {} THEN 0 ELSE CHOOSE i \in dots : \A j \in dots : j <= i

\* s is <name>.<ext> with a non-empty name and a non-empty ext
HasNameAndExt(s) == LastDot(s) > 1 /\ LastDot(s) < Len(s)
NameOf(s) == SubSeq(s, 1, LastDot(s) - 1)
ExtOf(s) == SubSeq(s, LastDot(s) + 1, Len(s))

-----------------------------------------------------------------------------
(* C14 *)

\* C14: for every entry, the link of its feed item is "/blog/" followed by
\* the slug of its static route, the empty-segment fallback included.
C14_PathIsPrefixPlusSlug ==
    RoutesBuilt =>
        /\ Len(slugs) = Len(posts)
        /\ \A i \in 1..Len(items) : \A k \in 1..Len(posts) :
               posts[k].id = sortedPosts[i].id
                   => items[i].link = BlogPrefix \o slugs[k]

\* "d/" falls back to the whole identifier in both: the slug is "d/" and
\* the link is "/blog/d/"
C14_Witness ==
    /\ RoutesBuilt
    /\ Len(items) = 1
    /\ posts[1].id = <<"d", "/">>
    /\ slugs[1] = <<"d", "/">>
    /\ items[1].link = BlogPrefix \o <<"d", "/">>

-----------------------------------------------------------------------------
(* C15 *)

StartsWithBlogPrefix(path) ==
    Len(path) >= Len(BlogPrefix) /\ SubSeq(path, 1, Len(BlogPrefix)) = BlogPrefix

\* a "/" occurs in path behind the "/blog/" prefix
SeparatorAfterPrefix(path) ==
    \E n \in (Len(BlogPrefix) + 1)..Len(path) : path[n] = "/"

\* C15 as stated: every link starts with "/blog/" and has no further "/"
\* after that prefix.
C15_AsStated ==
    \A i \in FeedIndex :
        /\ StartsWithBlogPrefix(items[i].link)
        /\ ~SeparatorAfterPrefix(items[i].link)

\* C15 amended: every link starts with "/blog/", and it has a further "/"
\* after that prefix exactly when the identifier contains a "/" and its last
\* segment is empty after the ".md" is removed (the link is then "/blog/"
\* followed by the whole identifier); every other entry, however deeply
\* nested, is served at a single segment.
C15_SingleSegmentUnlessFallback ==
    \A i \in FeedIndex :
        LET id == sortedPosts[i].id
        IN  /\ StartsWithBlogPrefix(items[i].link)
            /\ SeparatorAfterPrefix(items[i].link)
                   <=> (HasSeparator(id) /\ Stem(id) = <<>>)

\* "m/d/m", two directories deep, is served at "/blog/m"
C15_Witness ==
    /\ FeedBuilt
    /\ Len(items) = 1
    /\ sortedPosts[1].id = <<"m", "/", "d", "/", "m">>
    /\ items[1].link = BlogPrefix \o <<"m">>

-----------------------------------------------------------------------------
(* C16 *)

\* C16: the feed holds one item per entry of getSortedPosts(posts), in that
\* sequence's order, so that the items' dates are non-increasing, and the
\* link of each item is getPostPath of its entry.
C16_OneItemPerSortedPost ==
    FeedBuilt =>
        /\ sortedPosts = getSortedPosts(posts, filtering, now)
        /\ Len(items) = Len(sortedPosts)
        /\ \A i \in 1..Len(items) : items[i].link = getPostPath(sortedPosts[i])
        /\ \A i \in 1..(Len(items) - 1) : items[i].pubDate >= items[i + 1].pubDate

\* "d/mm.md", loaded second and dated later, is the first item with link
\* "/blog/mm", ahead of "d/m.md" with link "/blog/m"
C16_Witness ==
    /\ FeedBuilt
    /\ Len(posts) = 2
    /\ sortedPosts = <<posts[2], posts[1]>>
    /\ Len(items) = 2
    /\ items[1].link = BlogPrefix \o <<"m", "m">>
    /\ items[2].link = BlogPrefix \o <<"m">>
    /\ items[1].pubDate > items[2].pubDate

-----------------------------------------------------------------------------
(* C17 *)

Occurrences(s, e) == Cardinality({i \in 1..Len(s) : s[i] = e})

PassesFilter(post) == ~IsDraft(post) /\ ~ScheduledBeyondMargin(post)

\* C17: the sorted output holds every entry of the collection that passes
\* the filter (every entry, when the filter is off) as often as the
\* collection does, every other entry not at all, and nothing else.
C17_SortedIsPermutationOfKept ==
    FeedBuilt =>
        /\ \A k \in 1..Len(posts) :
               Occurrences(sortedPosts, posts[k]) =
                   IF filtering /\ ~PassesFilter(posts[k])
                   THEN 0
                   ELSE Occurrences(posts, posts[k])
        /\ \A i \in 1..Len(sortedPosts) : Occurrences(posts, sortedPosts[i]) > 0

\* with the filter off, two entries of equal effective date, one of them a
\* draft, are both in the output, once each
C17_Witness ==
    /\ FeedBuilt
    /\ ~filtering
    /\ Len(posts) = 2
    /\ ModElsePub(posts[1]) = ModElsePub(posts[2])
    /\ IsDraft(posts[1])
    /\ Len(sortedPosts) = 2
    /\ Occurrences(sortedPosts, posts[1]) = 1
    /\ Occurrences(sortedPosts, posts[2]) = 1

====
